---- MODULE Spec2Model ----
(***************************************************************************)
(* Model of mordred/mordred.py: the Mordred engine (execute_batch_tasks,   *)
(* its wrappers and __check_queue_for_errors), the three process-wide      *)
(* queues of TasksManager it fills and drains, and the TasksManager        *)
(* threads ("lanes") it starts, stops and joins.                           *)
(*                                                                         *)
(* Time is discrete.  A sleeping thread wakes exactly when its sleep has   *)
(* elapsed (Tick is disabled while a sleeper is due); everything else a    *)
(* thread does, a task's execution included, takes an arbitrary time.      *)
(***************************************************************************)
EXTENDS Integers, Sequences, FiniteSets, TLC

VARIABLES
    pc,                  \* where the engine is: idle, grace, join, returned, raised
    batch,               \* number of execute_batch_tasks calls made so far
    tasks_cls,           \* argument of the current call
    big_delay,           \* argument of the current call
    small_delay,         \* argument of the current call
    wait_for_threads,    \* argument of the current call
    backend_tasks,       \* local of the current call (line 198)
    global_tasks,        \* local of the current call (line 198)
    threads,             \* local of the current call (line 202): lane ids, in start order
    repos_backend,       \* local of the current call (line 209): section -> repositories
    stopper,             \* threading.Event of the current call (line 205)
    grace_left,          \* time left of the engine's time.sleep(1) (line 237)
    joined,              \* number of threads of the list already joined (line 242)
    raised,              \* the exception the current call raised, or NoError
    COMM_QUEUE,          \* TasksManager.COMM_QUEUE
    AUTOREFRESH_QUEUE,   \* TasksManager.AUTOREFRESH_QUEUE
    UPDATED_UUIDS_QUEUE, \* TasksManager.UPDATED_UUIDS_QUEUE
    projects,            \* the dict TaskProjects.get_projects() returns
    conf,                \* the sections of self.conf
    lane,                \* lane id -> state of that TasksManager thread
    nerr,                \* history: number of errors put on COMM_QUEUE so far
    ntaken,              \* history: number of errors the engine took from COMM_QUEUE
    appended,            \* history: appendPendingUUID calls of the current batch, per backend
    declared,            \* history: the project data as loaded, before any call
    spc,                 \* where start() is: none, loop, call, finished, propagated
    update,              \* self.conf['general']['update']
    all_tasks_cls        \* local of start() (lines 326-348)

vars == <<pc, batch, tasks_cls, big_delay, small_delay, wait_for_threads,
          backend_tasks, global_tasks, threads, stopper, grace_left, joined,
          raised, COMM_QUEUE, AUTOREFRESH_QUEUE, UPDATED_UUIDS_QUEUE,
          projects, conf, lane, nerr, ntaken, appended, repos_backend,
          declared, spc, update, all_tasks_cls>>

callVars == <<tasks_cls, big_delay, small_delay, wait_for_threads,
              backend_tasks, global_tasks, threads, repos_backend>>

startVars == <<spc, update, all_tasks_cls>>

-----------------------------------------------------------------------------
(* Bounds of the model *)

MaxBatches == 2

MaxCycles == 2

MaxErrors == 2

MaxAppends == 2

MaxDelay == 1

(* Program constants *)

GracePeriod == 1

-----------------------------------------------------------------------------
(* Tasks: classes with the is_backend_task query and an execute operation *)

BackendTaskClasses == {"B1", "B2"}

GlobalTaskClasses == {"A", "B"}

TaskClasses == BackendTaskClasses \cup GlobalTaskClasses

is_backend_task(t) == t \in BackendTaskClasses

\* the backend type a backend-scoped task declares (data model of the design)
backendType == [t \in BackendTaskClasses |-> IF t = "B1" THEN "git" ELSE "github"]

ErrorKinds == {"FatalError", "DataCollectionError", "DataEnrichmentError"}

Recoverable == {"DataCollectionError", "DataEnrichmentError"}

NoError == [id |-> 0, kind |-> "none", lane |-> "none", batch |-> 0]

\* the task lists handed to execute_batch_tasks
TaskLists ==
    { <<>>, <<"B1">>, <<"A", "B">>, <<"B1", "B2">>, <<"B1", "A">> }

Delays == 0..MaxDelay

-----------------------------------------------------------------------------
(* Configuration and project data *)

BackendSections == <<"git", "github">>

GlobalLane == "Global tasks"

LaneIds == {BackendSections[i] : i \in DOMAIN BackendSections} \cup {GlobalLane}

\* Task.get_backend(backend_section): the backend of a section; the sections
\* modelled carry no ":" suffix, so each names its backend
get_backend(backend_section) == backend_section

ProjectOrder == <<"p1", "p2">>

ProjectData ==
    { [p1 |-> [git |-> <<1>>], p2 |-> [git |-> <<2>>, github |-> <<3>>]] }

Confs == { {"git", "github"}, {"git"} }

-----------------------------------------------------------------------------
(* _split_tasks, lines 183-194 *)

RECURSIVE SplitLoop(_, _, _, _)
SplitLoop(tasks, i, backend_t, global_t) ==
    IF i > Len(tasks) THEN <<backend_t, global_t>>
    ELSE IF is_backend_task(tasks[i])
         THEN SplitLoop(tasks, i + 1, Append(backend_t, tasks[i]), global_t)
         ELSE SplitLoop(tasks, i + 1, backend_t, Append(global_t, tasks[i]))

\* a split that tests the opposite of is_backend_task
split_tasks_swapped(tasks) ==
    <<SplitLoop(tasks, 1, <<>>, <<>>)[2], SplitLoop(tasks, 1, <<>>, <<>>)[1]>>

Reverse(s) == [i \in 1..Len(s) |-> s[Len(s) + 1 - i]]

\* a split that inserts each task at the front of its list
split_tasks_reversed(tasks) ==
    <<Reverse(SplitLoop(tasks, 1, <<>>, <<>>)[1]),
      Reverse(SplitLoop(tasks, 1, <<>>, <<>>)[2])>>

split_tasks(tasks) == SplitLoop(tasks, 1, <<>>, <<>>)

-----------------------------------------------------------------------------
(* _get_repos_by_backend, lines 132-156.  output[backend_section] is made  *)
(* an alias of the list of the first project that has the backend (line    *)
(* 144), and += (line 146) extends that very list: owner records whose     *)
(* list each key of output is, and the lists live in the project data.     *)

RECURSIVE ReposLoop(_, _, _, _)
ReposLoop(s, p, owner, proj) ==
    IF s > Len(BackendSections) THEN [owner |-> owner, projects |-> proj]
    ELSE IF p > Len(ProjectOrder) THEN ReposLoop(s + 1, 1, owner, proj)
    ELSE LET backend_section == BackendSections[s]
             pro == ProjectOrder[p]
             backend == get_backend(backend_section)
         IN  IF backend \in DOMAIN proj[pro]
             THEN IF backend_section \notin DOMAIN owner
                  THEN ReposLoop(s, p + 1, owner @@ (backend_section :> pro), proj)
                  ELSE ReposLoop(s, p + 1, owner,
                          [proj EXCEPT ![owner[backend_section]][backend] =
                                           @ \o proj[pro][backend]])
             ELSE ReposLoop(s, p + 1, owner, proj)

\* the keys of the dict returned, in insertion order (lines 150-153)
EnabledKeys(owner, cnf) ==
    SelectSeq(BackendSections, LAMBDA k : k \in DOMAIN owner /\ k \in cnf)

\* [keys, repos, projects]: the dict returned and the project data left behind
get_repos_by_backend(proj, cnf) ==
    LET out == ReposLoop(1, 1, <<>>, proj)
        keys == EnabledKeys(out.owner, cnf)
    IN  [keys |-> keys,
         repos |-> [k \in {keys[i] : i \in DOMAIN keys} |->
                       out.projects[out.owner[k]][get_backend(k)]],
         projects |-> out.projects]

-----------------------------------------------------------------------------
(* TasksManager threads *)

(* st: none (no such thread), delay (initial delay), running (executing    *)
(* task number next of its list), sleep (between two cycles), stopped      *)
(* (left its loop), failed (ended by a fatal error).  log: the tasks       *)
(* executed in the current cycle, or in the last one until the next        *)
(* begins.  cycles: completed cycles, counted up to MaxCycles.             *)

NoLane == [st |-> "none", tasks |-> <<>>, cadence |-> 0, left |-> 0,
           next |-> 0, log |-> <<>>, cycles |-> 0, fatal |-> NoError]

\* a lane as constructed and started: it sleeps its initial delay, if any,
\* and then begins its first cycle
NewLane(tasks, cadence, initialDelay) ==
    [st |-> IF initialDelay > 0 THEN "delay" ELSE "running",
     tasks |-> tasks, cadence |-> cadence, left |-> initialDelay,
     next |-> 1, log |-> <<>>, cycles |-> 0, fatal |-> NoError]

Sleeping(l) == lane[l].st \in {"delay", "sleep"}

\* a join that also returns for a thread that is asleep
Terminated_or_asleep(l) == lane[l].st \in {"stopped", "failed", "sleep", "delay"}

\* lines 242-243: t.join() returns for a thread that has ended
Terminated(l) == lane[l].st \in {"stopped", "failed"}

Range(s) == {s[i] : i \in DOMAIN s}

-----------------------------------------------------------------------------
(* execute_batch_tasks, lines 172-260 *)

\* a seeding with a key for every backend section, enabled or not
backends_autorefresh_all_sections(keys) ==
    [backend \in Range(BackendSections) |-> FALSE]

\* line 211
backends_autorefresh(keys) == [backend \in Range(keys) |-> FALSE]

\* a seeding that puts the backend itself in its list
backends_autorefresh_uuids_nonempty(keys) ==
    [backend \in Range(keys) |-> <<backend>>]

\* line 216
backends_autorefresh_uuids(keys) == [backend \in Range(keys) |-> <<>>]

\* a call that sets the stopper whatever wait_for_threads is
sets_stopper_always(wait) == TRUE

\* a call that never sets the stopper
sets_stopper_never(wait) == FALSE

\* line 236: whether this call sleeps and then sets the stopper
sets_stopper(wait) == wait

\* lines 196-239: everything up to the joins, the lanes started and the
\* grace sleep begun
execute_batch_tasks(tl, bd, sd, w) ==
    /\ pc \in {"idle", "returned", "raised"}
    /\ LET split == split_tasks(tl)
           bt == split[1]
           gt == split[2]
           rb == get_repos_by_backend(projects, conf)
           keys == IF Len(bt) > 0 THEN rb.keys ELSE <<>>
       IN  /\ batch' = batch + 1
           /\ tasks_cls' = tl
           /\ big_delay' = bd
           /\ small_delay' = sd
           /\ wait_for_threads' = w
           /\ backend_tasks' = bt
           /\ global_tasks' = gt
           /\ stopper' = FALSE
           /\ projects' = IF Len(bt) > 0 THEN rb.projects ELSE projects
           /\ AUTOREFRESH_QUEUE' =
                  IF Len(bt) > 0
                  THEN Append(AUTOREFRESH_QUEUE, backends_autorefresh(rb.keys))
                  ELSE AUTOREFRESH_QUEUE
           /\ UPDATED_UUIDS_QUEUE' =
                  IF Len(bt) > 0
                  THEN Append(UPDATED_UUIDS_QUEUE, backends_autorefresh_uuids(rb.keys))
                  ELSE UPDATED_UUIDS_QUEUE
           /\ repos_backend' = IF Len(bt) > 0 THEN rb.repos ELSE <<>>
           /\ threads' = keys \o (IF Len(gt) > 0 THEN <<GlobalLane>> ELSE <<>>)
           /\ lane' = [l \in LaneIds |->
                         IF l \in Range(keys) THEN NewLane(bt, sd, 0)
                         ELSE IF l = GlobalLane /\ Len(gt) > 0 THEN NewLane(gt, bd, bd)
                         ELSE NoLane]
           /\ pc' = IF sets_stopper(w) THEN "grace" ELSE "join"
           /\ grace_left' = IF sets_stopper(w) THEN GracePeriod ELSE 0
    /\ joined' = 0
    /\ raised' = NoError
    /\ appended' = [b \in Range(BackendSections) |-> 0]
    /\ UNCHANGED <<COMM_QUEUE, conf, declared, nerr, ntaken>>

\* execute_tasks, lines 158-162
execute_tasks(tl) == execute_batch_tasks(tl, 0, 0, TRUE)

\* execute_nonstop_tasks, lines 164-170
execute_nonstop_tasks(tl, sleep_for, min_update_delay) ==
    execute_batch_tasks(tl, sleep_for, min_update_delay, FALSE)

\* lines 237-238: the grace sleep has elapsed, the stopper is set
SetStopper ==
    /\ pc = "grace"
    /\ grace_left = 0
    /\ stopper' = TRUE
    /\ pc' = "join"
    /\ UNCHANGED <<startVars, batch, callVars, grace_left, joined, raised, COMM_QUEUE,
                   AUTOREFRESH_QUEUE, UPDATED_UUIDS_QUEUE, projects, conf, declared,
                   lane, nerr, ntaken, appended>>

\* lines 242-243: t.join() returns for the next thread of the list
Join ==
    /\ pc = "join"
    /\ joined < Len(threads)
    /\ Terminated(threads[joined + 1])
    /\ joined' = joined + 1
    /\ UNCHANGED <<startVars, pc, batch, callVars, stopper, grace_left, raised, COMM_QUEUE,
                   AUTOREFRESH_QUEUE, UPDATED_UUIDS_QUEUE, projects, conf, declared,
                   lane, nerr, ntaken, appended>>

\* a queue that hands out its newest item first
check_queue_for_errors_newest(q) ==
    [exc |-> q[Len(q)], rest |-> SubSeq(q, 1, Len(q) - 1)]

\* __check_queue_for_errors, lines 262-271: the item COMM_QUEUE.get(block=False)
\* yields, and the queue it leaves
check_queue_for_errors(q) == [exc |-> Head(q), rest |-> Tail(q)]

\* lines 246, 268-271: an item was queued, its exception is raised and the
\* rest of execute_batch_tasks is skipped
RaiseError ==
    /\ pc = "join"
    /\ joined = Len(threads)
    /\ COMM_QUEUE # <<>>
    /\ raised' = check_queue_for_errors(COMM_QUEUE).exc
    /\ COMM_QUEUE' = check_queue_for_errors(COMM_QUEUE).rest
    /\ pc' = "raised"
    /\ ntaken' = ntaken + 1
    /\ UNCHANGED <<startVars, batch, callVars, stopper, grace_left, joined,
                   AUTOREFRESH_QUEUE, UPDATED_UUIDS_QUEUE, projects, conf, declared,
                   lane, nerr, appended>>

\* lines 246-260: COMM_QUEUE was empty, the shared queues are emptied
ReturnNormally ==
    /\ pc = "join"
    /\ joined = Len(threads)
    /\ COMM_QUEUE = <<>>
    /\ AUTOREFRESH_QUEUE' = <<>>
    /\ UPDATED_UUIDS_QUEUE' = <<>>
    /\ pc' = "returned"
    /\ UNCHANGED <<startVars, batch, callVars, stopper, grace_left, joined, raised,
                   COMM_QUEUE, projects, conf, declared, lane, nerr, ntaken, appended>>

-----------------------------------------------------------------------------
(* The run loop of a lane *)

engineVars == <<pc, batch, callVars, stopper, grace_left, joined, raised,
                projects, conf, declared>>

\* the sleep of a lane (initial delay, or cadence) has elapsed
LaneWake(l) ==
    /\ Sleeping(l)
    /\ lane[l].left = 0
    /\ lane' = [lane EXCEPT ![l].st = "running", ![l].next = 1]
    /\ UNCHANGED <<startVars, engineVars, COMM_QUEUE, AUTOREFRESH_QUEUE,
                   UPDATED_UUIDS_QUEUE, nerr, ntaken, appended>>

\* the log of a lane once the task it is executing is over
Executed(l) ==
    IF lane[l].next = 1 THEN <<lane[l].tasks[1]>>
    ELSE Append(lane[l].log, lane[l].tasks[lane[l].next])

\* the lane after the task it was executing has returned, or has raised a
\* recoverable error: the next task, or the cycle boundary, where the
\* stopper is looked at
AfterTask(l) ==
    LET r == lane[l]
        log == Executed(l)
    IN  IF r.next < Len(r.tasks)
        THEN [r EXCEPT !.next = r.next + 1, !.log = log]
        ELSE LET done == [r EXCEPT !.log = log,
                                   !.cycles = IF @ < MaxCycles THEN @ + 1 ELSE @]
             IN  IF stopper THEN [done EXCEPT !.st = "stopped"]
                 ELSE IF r.cadence > 0
                      THEN [done EXCEPT !.st = "sleep", !.left = r.cadence]
                      ELSE [done EXCEPT !.next = 1]

NewError(l, kind) ==
    [id |-> nerr + 1, kind |-> kind, lane |-> l, batch |-> batch]

\* task.execute() returns
TaskReturns(l) ==
    /\ lane[l].st = "running"
    /\ lane' = [lane EXCEPT ![l] = AfterTask(l)]
    /\ UNCHANGED <<startVars, engineVars, COMM_QUEUE, AUTOREFRESH_QUEUE,
                   UPDATED_UUIDS_QUEUE, nerr, ntaken, appended>>

\* task.execute() raises a recoverable domain error: it is reported and the
\* lane goes on
TaskFailsRecoverable(l, kind) ==
    /\ lane[l].st = "running"
    /\ kind \in Recoverable
    /\ nerr < MaxErrors
    /\ COMM_QUEUE' = Append(COMM_QUEUE, NewError(l, kind))
    /\ nerr' = nerr + 1
    /\ lane' = [lane EXCEPT ![l] = AfterTask(l)]
    /\ UNCHANGED <<startVars, engineVars, ntaken, AUTOREFRESH_QUEUE, UPDATED_UUIDS_QUEUE, appended>>

\* task.execute() raises a fatal error: it is reported and the lane ends
TaskFailsFatal(l) ==
    /\ lane[l].st = "running"
    /\ nerr < MaxErrors
    /\ COMM_QUEUE' = Append(COMM_QUEUE, NewError(l, "FatalError"))
    /\ nerr' = nerr + 1
    /\ lane' = [lane EXCEPT ![l].st = "failed",
                            ![l].log = Executed(l),
                            ![l].fatal = NewError(l, "FatalError")]
    /\ UNCHANGED <<startVars, engineVars, ntaken, AUTOREFRESH_QUEUE, UPDATED_UUIDS_QUEUE, appended>>

\* the number of appendPendingUUID calls of the batch, over the first n backends
RECURSIVE TotalAppended(_)
TotalAppended(n) ==
    IF n = 0 THEN 0 ELSE appended[BackendSections[n]] + TotalAppended(n - 1)

\* appendPendingUUID(backend, id), called by a backend-scoped task while it
\* executes: one exclusive operation on the mapping taken from the queue
appendPendingUUID(l, backend) ==
    /\ lane[l].st = "running"
    /\ l # GlobalLane
    /\ UPDATED_UUIDS_QUEUE # <<>>
    /\ backend \in DOMAIN Head(UPDATED_UUIDS_QUEUE)
    /\ TotalAppended(Len(BackendSections)) < MaxAppends
    /\ UPDATED_UUIDS_QUEUE' =
           Append(Tail(UPDATED_UUIDS_QUEUE),
                  [Head(UPDATED_UUIDS_QUEUE) EXCEPT ![backend] = Append(@, l)])
    /\ appended' = [appended EXCEPT ![backend] = @ + 1]
    /\ UNCHANGED <<startVars, engineVars, COMM_QUEUE, AUTOREFRESH_QUEUE, lane, nerr, ntaken>>

\* one unit of time passes: no sleeper is due
Tick ==
    /\ pc = "grace" \/ \E l \in LaneIds : Sleeping(l)
    /\ pc = "grace" => grace_left > 0
    /\ \A l \in LaneIds : Sleeping(l) => lane[l].left > 0
    /\ grace_left' = IF pc = "grace" THEN grace_left - 1 ELSE grace_left
    /\ lane' = [l \in LaneIds |->
                  IF Sleeping(l) THEN [lane[l] EXCEPT !.left = @ - 1] ELSE lane[l]]
    /\ UNCHANGED <<startVars, pc, batch, callVars, stopper, joined, raised, COMM_QUEUE,
                   AUTOREFRESH_QUEUE, UPDATED_UUIDS_QUEUE, projects, conf, declared,
                   nerr, ntaken, appended>>

-----------------------------------------------------------------------------
(* Specifications *)

InitWith(pd, cf) ==
    /\ pc = "idle"
    /\ batch = 0
    /\ tasks_cls = <<>>
    /\ big_delay = 0
    /\ small_delay = 0
    /\ wait_for_threads = TRUE
    /\ backend_tasks = <<>>
    /\ global_tasks = <<>>
    /\ threads = <<>>
    /\ stopper = FALSE
    /\ grace_left = 0
    /\ joined = 0
    /\ raised = NoError
    /\ COMM_QUEUE = <<>>
    /\ AUTOREFRESH_QUEUE = <<>>
    /\ UPDATED_UUIDS_QUEUE = <<>>
    /\ projects \in pd
    /\ declared = projects
    /\ repos_backend = <<>>
    /\ conf \in cf
    /\ lane = [l \in LaneIds |-> NoLane]
    /\ nerr = 0
    /\ ntaken = 0
    /\ appended = [b \in Range(BackendSections) |-> 0]

\* start() is not running: the engine is called directly
NoStart ==
    /\ spc = "none"
    /\ update = FALSE
    /\ all_tasks_cls = <<>>

Init == InitWith(ProjectData, Confs) /\ NoStart

\* the end of the task a lane is executing, whatever its outcome
TaskEnds(l) ==
    \/ TaskReturns(l)
    \/ \E kind \in Recoverable : TaskFailsRecoverable(l, kind)
    \/ TaskFailsFatal(l)

LaneRun(l) ==
    \/ LaneWake(l)
    \/ TaskEnds(l)

LaneStep == \E l \in LaneIds : LaneRun(l)

EngineStep ==
    \/ SetStopper
    \/ Join
    \/ RaiseError
    \/ ReturnNormally

\* the calls a caller of the engine makes: execute_tasks, execute_nonstop_tasks
\* and execute_batch_tasks itself, as start() calls it in its single pass
Calls(lists, delays) ==
    /\ \/ \E tl \in lists : execute_tasks(tl)
       \/ \E tl \in lists, bd, sd \in delays : execute_batch_tasks(tl, bd, sd, TRUE)
       \/ \E tl \in lists, bd, sd \in delays : execute_nonstop_tasks(tl, bd, sd)
    /\ UNCHANGED startVars

\* one call of the engine, with every task list and delay
Next ==
    \/ batch = 0 /\ Calls(TaskLists, Delays)
    \/ EngineStep
    \/ LaneStep
    \/ Tick

Spec == Init /\ [][Next]_vars

\* the task lists of the calls of a sequence of calls
SeqLists == { <<>>, <<"B1", "B2">>, <<"B1", "A">> }

\* a sequence of calls made by one engine, each after the one before it has
\* returned or raised; with no delay, no lane ever sleeps
SeqNext ==
    \/ batch < MaxBatches /\ Calls(SeqLists, {0})
    \/ EngineStep
    \/ \E l \in LaneIds : TaskEnds(l)
    \/ Tick

SeqSpec == Init /\ [][SeqNext]_vars

\* the task lists of the calls whose progress is followed
FairLists == { <<"A", "B">>, <<"B1", "B2">> }

FairNext ==
    \/ batch = 0 /\ Calls(FairLists, Delays)
    \/ EngineStep
    \/ LaneStep
    \/ Tick

\* every thread keeps running, every task execution ends, and time passes
Fairness ==
    /\ WF_vars(EngineStep)
    /\ WF_vars(Tick)
    /\ \A l \in LaneIds : WF_vars(LaneRun(l))

FairSpec == Init /\ [][FairNext]_vars /\ Fairness

\* the task lists of the calls whose tasks use the registry
RegLists == { <<"B1">>, <<"B1", "B2">> }

\* one call whose backend-scoped tasks append pending UUIDs
RegNext ==
    \/ batch = 0 /\ (\E tl \in RegLists : execute_tasks(tl)) /\ UNCHANGED startVars
    \/ EngineStep
    \/ \E l \in LaneIds : TaskReturns(l) \/ TaskFailsFatal(l)
    \/ Tick
    \/ \E l \in LaneIds, backend \in Range(BackendSections) :
           appendPendingUUID(l, backend)

RegSpec == Init /\ [][RegNext]_vars

-----------------------------------------------------------------------------
(* The main loop of start(), lines 353-381 *)

\* a loop that handles every exception
caught_any(exc) == TRUE

\* lines 371 and 376: the exceptions the except clauses of the loop handle
caught(exc) == exc.kind \in {"DataCollectionError", "DataEnrichmentError"}

\* lines 353-366: one pass of the loop up to the call it makes; the delays
\* the configuration gives are 0
StartIteration ==
    /\ spc = "loop"
    /\ IF all_tasks_cls = <<>>
       THEN /\ spc' = "finished"
            /\ UNCHANGED <<pc, batch, callVars, stopper, grace_left, joined,
                           raised, COMM_QUEUE, AUTOREFRESH_QUEUE,
                           UPDATED_UUIDS_QUEUE, projects, conf, declared,
                           lane, nerr, ntaken, appended>>
       ELSE /\ batch < MaxBatches
            /\ IF ~update
               THEN execute_batch_tasks(all_tasks_cls, 0, 0, TRUE)
               ELSE execute_nonstop_tasks(all_tasks_cls, 0, 0)
            /\ spc' = "call"
    /\ UNCHANGED <<update, all_tasks_cls>>

\* the state of the engine, which start() does not touch between two calls
batchVars == <<pc, batch, callVars, stopper, grace_left, joined, raised,
               COMM_QUEUE, AUTOREFRESH_QUEUE, UPDATED_UUIDS_QUEUE, projects,
               conf, declared, lane, nerr, ntaken, appended>>

\* lines 361-368: the call returned; break in a single pass, and the next
\* pass of the loop otherwise
StartReturned ==
    /\ spc = "call"
    /\ pc = "returned"
    /\ spc' = IF ~update THEN "finished" ELSE "loop"
    /\ UNCHANGED <<update, all_tasks_cls, batchVars>>

\* lines 371-379: the call raised an exception the loop handles; it is
\* logged and the loop goes on
StartCaught ==
    /\ spc = "call"
    /\ pc = "raised"
    /\ caught(raised)
    /\ spc' = "loop"
    /\ UNCHANGED <<update, all_tasks_cls, batchVars>>

\* the call raised any other exception: it leaves start()
StartPropagates ==
    /\ spc = "call"
    /\ pc = "raised"
    /\ ~caught(raised)
    /\ spc' = "propagated"
    /\ UNCHANGED <<update, all_tasks_cls, batchVars>>

\* the recurring task sets: TaskProjects alone, or with a collection task
StartLists == { <<"A">>, <<"A", "B1">> }

\* start() has made its initial load and enters its main loop
StartInit ==
    /\ InitWith(ProjectData, Confs)
    /\ spc = "loop"
    /\ update \in BOOLEAN
    /\ all_tasks_cls \in StartLists

StartNext ==
    \/ StartIteration
    \/ StartReturned
    \/ StartCaught
    \/ StartPropagates
    \/ EngineStep
    \/ \E l \in LaneIds : TaskEnds(l)
    \/ Tick

StartSpec == StartInit /\ [][StartNext]_vars

-----------------------------------------------------------------------------
(* Successive batches over project data of several shapes *)

\* project data in which no project lists github, in which a project lists
\* it with no repository, and in which a project lists it with one
ResolverProjectData ==
    { [p1 |-> [git |-> <<1>>], p2 |-> [git |-> <<2>>]],
      [p1 |-> [git |-> <<1>>, github |-> <<>>], p2 |-> [git |-> <<2>>]],
      [p1 |-> [git |-> <<1>>], p2 |-> [git |-> <<2>>, github |-> <<3>>]] }

ResolverLists == { <<"B1">>, <<"B1", "A">> }

ResolverInit == InitWith(ResolverProjectData, Confs) /\ NoStart

\* a sequence of single-pass batches
ResolverNext ==
    \/ /\ batch < MaxBatches
       /\ \E tl \in ResolverLists : execute_tasks(tl)
       /\ UNCHANGED startVars
    \/ EngineStep
    \/ \E l \in LaneIds : TaskEnds(l)
    \/ Tick

ResolverSpec == ResolverInit /\ [][ResolverNext]_vars

-----------------------------------------------------------------------------
(* Claims *)

Ended == pc \in {"returned", "raised"}

IsPrefix(s, t) == Len(s) <= Len(t) /\ s = SubSeq(t, 1, Len(s))

\* C1 as stated: when a task raised a FatalError during a batch, the call
\* raises exactly that error once all lanes have joined.
C1_RaisesThatFatalError ==
    \A l \in LaneIds :
        (pc = "raised" /\ lane[l].st = "failed") => raised = lane[l].fatal

\* C1 amended: a lane ended by a FatalError has executed no task after the
\* failing one and never changes again during the call; the call raises the
\* oldest error still held by COMM_QUEUE, which is the task's error exactly
\* when no error reported before it is still there.
C1_RaisesOldestPendingError ==
    /\ [](\A l \in LaneIds : lane[l].st = "failed" =>
            /\ lane[l].fatal.kind = "FatalError"
            /\ lane[l].log = SubSeq(lane[l].tasks, 1, lane[l].next)
            /\ pc = "join" => lane[l].fatal.id > ntaken)
    /\ [](pc = "raised" =>
            /\ raised.id = ntaken
            /\ \A i \in DOMAIN COMM_QUEUE : COMM_QUEUE[i].id > raised.id
            /\ \A l \in LaneIds :
                   lane[l].st = "failed" /\ lane[l].fatal.id = ntaken
                       => raised = lane[l].fatal)
    /\ [][\A l \in LaneIds :
             lane[l].st = "failed" /\ batch' = batch => lane'[l] = lane[l]]_vars

\* a call raised the FatalError of a lane that stopped before its last task
C1_Witness ==
    /\ pc = "raised"
    /\ \E l \in LaneIds :
           /\ lane[l].st = "failed"
           /\ raised = lane[l].fatal
           /\ Len(lane[l].log) < Len(lane[l].tasks)

\* C2 as stated: whenever a task of some lane has raised a fatal error, the
\* call that started the lane eventually raises an error to its caller.
C2_FatalErrorEventuallyRaised ==
    (\E l \in LaneIds : lane[l].st = "failed") ~> (pc = "raised")

\* C3 as stated: while the lanes of a batch with backend-scoped tasks are
\* started and until the size check after the joins, each of the two shared
\* registry queues holds exactly one mapping.
C3_OneRegistryPerBatch ==
    (pc \in {"grace", "join"} /\ Len(backend_tasks) > 0) =>
        Len(AUTOREFRESH_QUEUE) = 1 /\ Len(UPDATED_UUIDS_QUEUE) = 1

\* C4: in batch mode every lane terminates and the call returns or raises;
\* a lane that has stopped has completed the last task of its list, a lane
\* that ended otherwise was ended by a fatal error of its own task, and the
\* call ends only when every lane it started has terminated.
C4_BatchModeTerminates ==
    /\ (wait_for_threads /\ pc \in {"grace", "join"}) ~> Ended
    /\ [](\A l \in LaneIds :
            /\ lane[l].st = "stopped" =>
                   lane[l].log = lane[l].tasks /\ lane[l].cycles >= 1
            /\ lane[l].st = "failed" => lane[l].fatal.lane = l)
    /\ []((wait_for_threads /\ Ended) =>
            \A i \in DOMAIN threads : Terminated(threads[i]))

\* a batch-mode call has returned and a lane of it stopped at a cycle boundary
C4_Witness ==
    /\ wait_for_threads
    /\ pc = "returned"
    /\ \E l \in LaneIds : lane[l].st = "stopped" /\ lane[l].cycles >= 1

\* C5 as stated: when a single-pass batch has returned, every lane it
\* started has executed its task list exactly once.
C5_ExactlyOnePass ==
    (wait_for_threads /\ pc = "returned") =>
        \A i \in DOMAIN threads : lane[threads[i]].cycles = 1

\* C6 as stated: a single-pass batch of the global tasks [A, B] with
\* big_delay > 0, none of which fails, has run exactly one cycle of the
\* global lane when it returns.
C6_GlobalLaneOneCycle ==
    (wait_for_threads /\ tasks_cls = <<"A", "B">> /\ big_delay > 0
        /\ pc = "returned") =>
        lane[GlobalLane].cycles = 1

\* C7: in continuous mode the stopper is never set, the engine never sleeps
\* the grace period, and the call ends only when every lane it started has
\* been ended by a fatal error.
C7_ContinuousNeverStopped ==
    ~wait_for_threads =>
        /\ ~stopper
        /\ pc # "grace"
        /\ Ended => \A i \in DOMAIN threads : lane[threads[i]].st = "failed"

\* a continuous call blocked in its joins while a lane is in a later cycle
C7_Witness ==
    /\ ~wait_for_threads
    /\ pc = "join"
    /\ \E l \in LaneIds : lane[l].st = "running" /\ lane[l].cycles >= 2

Partition(l) ==
    SelectSeq(tasks_cls, LAMBDA t : is_backend_task(t) <=> l # GlobalLane)

\* C9 as stated: every task of a backend lane is a backend-scoped task that
\* declares the backend of that lane, and every task of the global lane is
\* a global task.
C9_RoutedToDeclaredBackend ==
    \A l \in LaneIds : \A i \in DOMAIN lane[l].tasks :
        IF l = GlobalLane
        THEN ~is_backend_task(lane[l].tasks[i])
        ELSE is_backend_task(lane[l].tasks[i])
                /\ backendType[lane[l].tasks[i]] = l

\* C9 amended: every backend-scoped task is in the list of every backend
\* lane and never in the global lane, every global task is in the global
\* lane and in no backend lane, and each task of tasks_cls is in exactly one
\* of backend_tasks and global_tasks.
C9_BackendTasksInEveryBackendLane ==
    /\ \A i \in DOMAIN tasks_cls :
           IF is_backend_task(tasks_cls[i])
           THEN /\ tasks_cls[i] \in Range(backend_tasks)
                /\ tasks_cls[i] \notin Range(global_tasks)
                /\ tasks_cls[i] \notin Range(lane[GlobalLane].tasks)
                /\ \A j \in DOMAIN threads :
                       threads[j] # GlobalLane =>
                           tasks_cls[i] \in Range(lane[threads[j]].tasks)
           ELSE /\ tasks_cls[i] \in Range(global_tasks)
                /\ tasks_cls[i] \notin Range(backend_tasks)
                /\ tasks_cls[i] \in Range(lane[GlobalLane].tasks)
                /\ \A l \in LaneIds \ {GlobalLane} :
                       tasks_cls[i] \notin Range(lane[l].tasks)
    /\ Len(backend_tasks) + Len(global_tasks) = Len(tasks_cls)
    /\ \A l \in LaneIds : Range(lane[l].tasks) \subseteq Range(tasks_cls)

\* a backend-scoped task is in the lists of two backend lanes
C9_Witness ==
    /\ pc = "join"
    /\ tasks_cls = <<"B1", "A">>
    /\ lane["git"].tasks = <<"B1">>
    /\ lane["github"].tasks = <<"B1">>
    /\ lane[GlobalLane].tasks = <<"A">>
    /\ lane["git"].log = <<"B1">>
    /\ lane["github"].log = <<"B1">>

\* C10: what a lane has executed in a cycle is always a prefix of its
\* partition of tasks_cls, in the order of tasks_cls; a lane executes one
\* task at a time, and each task it completes is the next of that order.
C10_LaneOrder ==
    /\ [](\A l \in LaneIds : lane[l].st # "none" =>
            /\ lane[l].tasks = Partition(l)
            /\ IsPrefix(lane[l].log, Partition(l))
            /\ lane[l].next \in 1..Len(lane[l].tasks)
            /\ lane[l].st = "running" =>
                   lane[l].next = 1 \/ Len(lane[l].log) = lane[l].next - 1)
    /\ [][\A l \in LaneIds :
             (batch' = batch /\ lane'[l].log # lane[l].log) =>
                 lane'[l].log = SubSeq(Partition(l), 1, lane[l].next)]_vars

\* a lane is at the second task of a later cycle
C10_Witness ==
    \E l \in LaneIds :
        /\ lane[l].st = "running"
        /\ lane[l].cycles >= 1
        /\ lane[l].next = 2
        /\ lane[l].log = <<lane[l].tasks[1]>>

\* C11 as stated: in a single pass (general.update false) start() calls
\* execute_batch_tasks on the recurring task set exactly once and then leaves
\* its loop, whatever the outcome of that call.
C11_SinglePassRunsOnce ==
    (spc # "none" /\ ~update) =>
        /\ batch <= 1
        /\ batch = 1 => spc \in {"call", "finished", "propagated"}

\* C12: in continuous mode a call that raised a DataCollectionError or a
\* DataEnrichmentError is followed by the next pass of the loop, whose only
\* step is a new call, and start() never finishes; a call that raised any
\* other error ends start() with that error, and no call follows.
C12_RecoverableRestartsOthersPropagate ==
    /\ [][(update /\ spc = "call" /\ pc = "raised" /\ spc' # spc) =>
            IF raised.kind \in Recoverable
            THEN spc' = "loop" /\ batch' = batch
            ELSE spc' = "propagated"]_vars
    /\ [][(update /\ spc = "loop" /\ spc' # spc) =>
            spc' = "call" /\ batch' = batch + 1 /\ ~wait_for_threads'
                /\ tasks_cls' = all_tasks_cls]_vars
    /\ [][spc = "propagated" => spc' = "propagated" /\ batch' = batch]_vars
    /\ [](spc = "propagated" => pc = "raised" /\ raised.kind \notin Recoverable)
    /\ [](update => spc # "finished")

\* the second call of a continuous start(), made after the first raised a
\* recoverable error, is running
C12_Witness ==
    /\ update
    /\ spc = "call"
    /\ batch = 2
    /\ pc = "join"
    /\ \E l \in LaneIds : lane[l].st = "running" /\ lane[l].cycles >= 1

\* the backend lanes the current call started
BackendLanes == Range(threads) \ {GlobalLane}

\* the backend sections the configuration has
EnabledBackends == Range(BackendSections) \cap conf

\* C13 as stated: in a batch with backend-scoped tasks the backend lanes
\* started are the backends enabled in configuration, also those no project
\* lists.
C13_LanePerEnabledBackend ==
    (pc \in {"grace", "join"} /\ Len(backend_tasks) > 0) =>
        BackendLanes = EnabledBackends

\* C14 as stated: a call with an empty task list starts no lane, does not
\* raise, and leaves COMM_QUEUE and the two registry queues as they were,
\* whatever the state the engine was in when it was called.
C14_EmptyBatchIsNoOp ==
    [][(batch' > 0 /\ tasks_cls' = <<>>) =>
          /\ threads' = <<>>
          /\ pc' # "raised"
          /\ COMM_QUEUE' = COMM_QUEUE
          /\ AUTOREFRESH_QUEUE' = AUTOREFRESH_QUEUE
          /\ UPDATED_UUIDS_QUEUE' = UPDATED_UUIDS_QUEUE]_vars

\* the item a queue received last
Last(q) == q[Len(q)]

\* C15: a call with backend-scoped tasks puts on each registry queue one
\* mapping whose keys are the keys of repos_backend, with False, and with
\* the empty list, under every key, and starts exactly one lane per key and
\* at most one global lane: the keys of the mapping and the backend lanes
\* are the same set.
C15_RegistrySeededPerBackendLane ==
    /\ [][(batch' = batch + 1 /\ Len(backend_tasks') > 0) =>
            /\ AUTOREFRESH_QUEUE' =
                   Append(AUTOREFRESH_QUEUE, [b \in DOMAIN repos_backend' |-> FALSE])
            /\ UPDATED_UUIDS_QUEUE' =
                   Append(UPDATED_UUIDS_QUEUE, [b \in DOMAIN repos_backend' |-> <<>>])]_vars
    /\ []((pc \in {"grace", "join"} /\ Len(backend_tasks) > 0) =>
            /\ DOMAIN Last(AUTOREFRESH_QUEUE) = BackendLanes
            /\ DOMAIN Last(UPDATED_UUIDS_QUEUE) = BackendLanes
            /\ DOMAIN repos_backend = BackendLanes
            /\ \A b \in BackendLanes :
                   Last(AUTOREFRESH_QUEUE)[b] = FALSE /\ lane[b].st # "none"
            /\ \A l \in LaneIds \ (BackendLanes \cup {GlobalLane}) :
                   lane[l].st = "none"
            /\ Cardinality(Range(threads)) = Len(threads))

\* a batch with backend-scoped and global tasks runs with one backend
\* enabled: one backend lane, the global lane, and a mapping of one key
C15_Witness ==
    /\ pc = "join"
    /\ BackendLanes = {"git"}
    /\ GlobalLane \in Range(threads)
    /\ lane["git"].st = "running"
    /\ DOMAIN Last(AUTOREFRESH_QUEUE) = {"git"}
    /\ Last(UPDATED_UUIDS_QUEUE) = [b \in {"git"} |-> <<>>]

\* a lane that is executing a task or waiting for its next cycle
Active(l) == lane[l].st \in {"delay", "running", "sleep"}

\* C16: the call has returned or raised only when no lane is executing a
\* task or waiting for a cycle, and no step takes an item from COMM_QUEUE
\* or from a registry queue while a lane is; a recoverable error is raised
\* only after the lane that reported it has completed its cycle.
C16_InspectsAfterAllLanesEnded ==
    /\ [](Ended => \A l \in LaneIds : ~Active(l))
    /\ [][(\/ Len(COMM_QUEUE') < Len(COMM_QUEUE)
           \/ Len(AUTOREFRESH_QUEUE') < Len(AUTOREFRESH_QUEUE)
           \/ Len(UPDATED_UUIDS_QUEUE') < Len(UPDATED_UUIDS_QUEUE)) =>
              /\ joined = Len(threads)
              /\ \A l \in LaneIds : ~Active(l)]_vars
    /\ []((pc = "raised" /\ raised.kind \in Recoverable) =>
            \/ lane[raised.lane].st = "failed"
            \/ /\ lane[raised.lane].st = "stopped"
               /\ lane[raised.lane].log = lane[raised.lane].tasks)

\* a call of two lanes raised a recoverable error after the lane that
\* reported it had completed its cycle and the other lane a later cycle
C16_Witness ==
    /\ pc = "raised"
    /\ raised.kind \in Recoverable
    /\ Len(threads) = 2
    /\ lane[raised.lane].st = "stopped"
    /\ \E l \in Range(threads) :
           l # raised.lane /\ lane[l].st = "stopped" /\ lane[l].cycles >= 2

\* C17 as stated: when a call has ended, by returning or by raising, both
\* registry queues are empty.
C17_RegistryDestroyedAtEnd ==
    Ended => AUTOREFRESH_QUEUE = <<>> /\ UPDATED_UUIDS_QUEUE = <<>>

\* the repository lists the first n projects declare for a backend, one
\* after the other in project order
RECURSIVE DeclaredRepos(_, _)
DeclaredRepos(backend, n) ==
    IF n = 0 THEN <<>>
    ELSE DeclaredRepos(backend, n - 1) \o
             (IF backend \in DOMAIN declared[ProjectOrder[n]]
              THEN declared[ProjectOrder[n]][backend] ELSE <<>>)

\* C18 as stated: every key of the map _get_repos_by_backend returned is a
\* section of the configuration, and the list under it is the concatenation,
\* in project order, of the lists the projects declare for that backend,
\* each once.
C18_ConcatenationOfDeclaredLists ==
    Len(backend_tasks) > 0 =>
        \A k \in DOMAIN repos_backend :
            /\ k \in conf
            /\ repos_backend[k] = DeclaredRepos(get_backend(k), Len(ProjectOrder))

\* C19 as stated: computing the map leaves the project data unchanged, and
\* a call returns a map equal to the one the call before it returned.
C19_ResolverIsPure ==
    [][/\ projects' = projects
       /\ (batch' = batch + 1 /\ Len(backend_tasks) > 0
              /\ Len(backend_tasks') > 0) => repos_backend' = repos_backend]_vars

\* C20 as stated: COMM_QUEUE is empty whenever a call starts, and the error
\* a call raises was reported by a task executed in that call.
C20_RaisedErrorIsOfThisBatch ==
    /\ pc = "raised" => raised.batch = batch
    /\ \A i \in DOMAIN COMM_QUEUE : COMM_QUEUE[i].batch = batch

====
